---- MODULE Spec2Model ----
(***************************************************************************)
(* Model of app3.0.py: occupancy / ADR / RevPAR at a cutoff date.          *)
(*                                                                         *)
(* Timestamps are integers counting ticks from 2024-01-01 00:00, with      *)
(* TicksPerDay ticks in a day; NaT is a value below every timestamp.       *)
(* Money is exact rational arithmetic (floats are not rounded here).       *)
(* Text is a sequence of one-character strings.                            *)
(***************************************************************************)
EXTENDS Integers, Sequences, FiniteSets, TLC

\* ------------------------------------------------------------- bounds
\* resolution of a timestamp inside one day
TicksPerDay == 2
\* rows of the uploaded table of a run that draws the widgets freely
MaxRows == 2
\* rows of one uploaded table of a run that draws the cells freely
MaxLoadRows == 1
\* rows of the frame handed to compute_kpis in a direct call
MaxRecs == 2
\* rows of the frame handed to expand_reservations in a direct call
MaxExpRecs == 1
\* last day (counted from 2024-01-01) of the dates tried on expand_reservations
MaxDay == 4

\* year of the calendar the model covers (the app's default dates)
BaseYear == 2024

\* ------------------------------------------------------------- time
NaT == -1

\* pd.to_datetime(date): midnight of that day
DateTs(d) == d * TicksPerDay

\* timedelta(days=1)
OneDay == TicksPerDay

\* timedelta.days (floor)
TdDays(delta) == delta \div TicksPerDay

\* pd.isna on a timestamp
IsNaT(t) == t = NaT

\* a <= b on timestamps: any comparison with NaT is False
TsLe(a, b) == ~IsNaT(a) /\ ~IsNaT(b) /\ a <= b

\* pd.date_range(a, b, freq="D") for a, b not NaT
DateRange(a, b) ==
  IF b < a THEN << >>
  ELSE [i \in 1..((b - a) \div OneDay + 1) |-> a + (i - 1) * OneDay]

\* days in each month of BaseYear
MonthLen == <<31, 29, 31, 30, 31, 30, 31, 31, 30, 31, 30, 31>>

RECURSIVE MonthStartDay(_)
\* day number (from 1 January) of the first day of month m; m = 13 is the
\* first day after the year
MonthStartDay(m) == IF m = 1 THEN 0 ELSE MonthStartDay(m - 1) + MonthLen[m - 1]

\* Timestamp.to_period("M"): the month holding timestamp t
ToPeriodM(t) ==
  CHOOSE m \in 1..12 : DateTs(MonthStartDay(m)) <= t /\ t < DateTs(MonthStartDay(m + 1))

\* Period.to_timestamp(how="start")
PeriodStartTs(m) == DateTs(MonthStartDay(m))

\* a month end that runs into the first day of the next month
PeriodEndNextMidnight(m) == DateTs(MonthStartDay(m + 1))

\* Period.to_timestamp(how="end"): the last instant of the month
PeriodEndTs(m) == DateTs(MonthStartDay(m + 1)) - 1

\* ------------------------------------------------------------- text
Alphabet == <<" ", "-", "0", "1", "2", "3", "4", "5", "6", "7", "8", "9",
              "A", "B", "a", "n", "x">>

\* code point order of the characters used
Ord(c) == CHOOSE i \in 1..Len(Alphabet) : Alphabet[i] = c

Digits == <<"0", "1", "2", "3", "4", "5", "6", "7", "8", "9">>

IsDigit(c) == \E i \in 1..10 : Digits[i] = c

DigitVal(c) == (CHOOSE i \in 1..10 : Digits[i] = c) - 1

RECURSIVE StrLt(_, _)
\* s < t on Python strings (lexicographic by code point)
StrLt(s, t) ==
  IF t = << >> THEN FALSE
  ELSE IF s = << >> THEN TRUE
  ELSE IF Head(s) # Head(t) THEN Ord(Head(s)) < Ord(Head(t))
  ELSE StrLt(Tail(s), Tail(t))

RECURSIVE LStrip(_)
LStrip(s) == IF s # << >> /\ Head(s) = " " THEN LStrip(Tail(s)) ELSE s

RECURSIVE RStrip(_)
RStrip(s) ==
  IF s # << >> /\ s[Len(s)] = " " THEN RStrip(SubSeq(s, 1, Len(s) - 1)) ELSE s

\* str.strip()
Strip(s) == RStrip(LStrip(s))

RECURSIVE DigitsVal(_, _)
DigitsVal(s, acc) ==
  IF s = << >> THEN acc ELSE DigitsVal(Tail(s), acc * 10 + DigitVal(Head(s)))

\* two decimal digits of n
TwoDigits(n) == <<Digits[(n \div 10) + 1], Digits[(n % 10) + 1]>>

\* str(Period) of month m of BaseYear: "YYYY-MM"
PeriodStr(m) ==
  <<Digits[(BaseYear \div 1000) + 1], Digits[((BaseYear \div 100) % 10) + 1],
    Digits[((BaseYear \div 10) % 10) + 1], Digits[(BaseYear % 10) + 1], "-">>
  \o TwoDigits(m)

\* pd.Period(ym, freq="M"): the month number of a "YYYY-MM" token
ParsePeriod(ym) == DigitsVal(SubSeq(ym, 6, 7), 0)

\* ------------------------------------------------------------- numbers
RECURSIVE Gcd(_, _)
Gcd(a, b) == IF b = 0 THEN a ELSE Gcd(b, a % b)

Abs(a) == IF a < 0 THEN -a ELSE a

\* the rational n/d in lowest terms, d > 0
Rat(n, d) ==
  LET g == Gcd(Abs(n), Abs(d))
      s == IF d < 0 THEN -1 ELSE 1
  IN  [num |-> s * (n \div g), den |-> s * (d \div g)]

Zero == [num |-> 0, den |-> 1]

\* what a Python float division by zero leaves: ZeroDivisionError
Fault == [num |-> 0, den |-> 0]

RatOfInt(n) == [num |-> n, den |-> 1]

RatAdd(a, b) == Rat(a.num * b.den + b.num * a.den, a.den * b.den)

\* a / b of Python numbers: raises on b = 0
RatDiv(a, b) == IF b.num = 0 THEN Fault ELSE Rat(a.num * b.den, a.den * b.num)

RatMul(a, b) == Rat(a.num * b.num, a.den * b.den)

RatLe(a, b) == a.num * b.den <= b.num * a.den

\* ------------------------------------------------------------- cells
\* A cell of an uploaded sheet: a number, a date, a text, or blank (NaN).
NumCell(n) == [kind |-> "num", n |-> n, s |-> << >>]
DateCell(d) == [kind |-> "date", n |-> DateTs(d), s |-> << >>]
TextCell(s) == [kind |-> "text", n |-> 0, s |-> s]
Blank == [kind |-> "blank", n |-> 0, s |-> << >>]

NaN == [nan |-> TRUE, v |-> 0]
Val(n) == [nan |-> FALSE, v |-> n]

\* whether text s reads as an integer literal
IsIntText(s) ==
  LET body == IF s # << >> /\ Head(s) = "-" THEN Tail(s) ELSE s
  IN  body # << >> /\ \A i \in 1..Len(body) : IsDigit(body[i])

IntOfText(s) ==
  IF Head(s) = "-" THEN -DigitsVal(Tail(s), 0) ELSE DigitsVal(s, 0)

\* pd.to_datetime(cell, errors="coerce"); the texts tried are not dates
ToDatetime(c) == IF c.kind = "date" THEN c.n ELSE NaT

\* pd.to_numeric(cell, errors="coerce")
ToNumeric(c) ==
  IF c.kind = "num" THEN Val(c.n)
  ELSE IF c.kind = "text" /\ IsIntText(Strip(c.s)) THEN Val(IntOfText(Strip(c.s)))
  ELSE NaN

\* Series.fillna(d)
FillNa(x, d) == IF x.nan THEN d ELSE x.v

\* astype(str) of a text or blank cell
AsStr(c) == IF c.kind = "blank" THEN <<"n", "a", "n">> ELSE c.s

\* ------------------------------------------------------------- load_excel
expected == {"Alojamiento", "Fecha alta", "Fecha entrada", "Fecha salida", "Precio"}

\* pd.DataFrame(): no columns, no rows
EmptyFrame == [cols |-> {}, rows |-> << >>]

\* the columns of pd.concat(frames): the union of the frames' columns
ConcatCols(frames) == UNION {frames[i].cols : i \in 1..Len(frames)}

\* the rows one frame gives to pd.concat: a column it lacks is NaN
FrameRows(f) ==
  [i \in 1..Len(f.rows) |->
     [c \in expected |-> IF c \in f.cols THEN f.rows[i][c] ELSE Blank]]

RECURSIVE ConcatRows(_)
ConcatRows(frames) ==
  IF frames = << >> THEN << >>
  ELSE FrameRows(Head(frames)) \o ConcatRows(Tail(frames))

\* parse_dates: the three date columns coerced (each is present here: the
\* caller has already stopped on a missing column)
parse_dates(row) ==
  [row EXCEPT !["Fecha alta"] = ToDatetime(row["Fecha alta"]),
              !["Fecha entrada"] = ToDatetime(row["Fecha entrada"]),
              !["Fecha salida"] = ToDatetime(row["Fecha salida"])]

\* a price forced to be non-negative
NormPrecioClipped(c) == IF FillNa(ToNumeric(c), 0) < 0 THEN 0 ELSE FillNa(ToNumeric(c), 0)

\* line 51 on one cell
NormPrecio(c) == FillNa(ToNumeric(c), 0)

NormalizeRow(row) ==
  [parse_dates(row) EXCEPT !["Alojamiento"] = Strip(AsStr(row["Alojamiento"])),
                           !["Precio"] = NormPrecio(row["Precio"])]

\* load_excel: [halt, df]; halt is "" or the reason the script stopped
load_excel(files) ==
  IF \E i \in 1..Len(files) : ~files[i].readable
    THEN [halt |-> "read_error", df |-> EmptyFrame]
  ELSE IF files = << >>
    THEN [halt |-> "", df |-> EmptyFrame]
  ELSE IF expected \ ConcatCols(files) # {}
    THEN [halt |-> "missing_columns", df |-> EmptyFrame]
  ELSE [halt |-> "",
        df |-> [cols |-> ConcatCols(files),
                rows |-> [i \in 1..Len(ConcatRows(files)) |->
                            NormalizeRow(ConcatRows(files)[i])]]]

\* ------------------------------------------------------------- expand_reservations
\* the nights of one reservation (check-out not counted)
noches(r) == DateRange(r["Fecha entrada"], r["Fecha salida"] - OneDay)

\* a period whose last day is left out
InPeriodEndExclusive(n, start, end) == start <= n /\ n < end

\* whether night n is inside the period
InPeriod(n, start, end) == start <= n /\ n <= end

\* one nightly row
NightRow(r, n) ==
  [Alojamiento |-> r["Alojamiento"], Fecha |-> n, Precio |-> r["Precio"],
   TotalNoches |-> Len(noches(r))]

\* the rows one reservation appends
RowsOf(r, start, end) ==
  IF IsNaT(r["Fecha entrada"]) \/ IsNaT(r["Fecha salida"]) THEN << >>
  ELSE IF Len(noches(r)) = 0 THEN << >>
  ELSE SelectSeq([i \in 1..Len(noches(r)) |-> NightRow(r, noches(r)[i])],
                 LAMBDA x : InPeriod(x.Fecha, start, end))

RECURSIVE expand_reservations(_, _, _)
expand_reservations(rows, start, end) ==
  IF rows = << >> THEN << >>
  ELSE RowsOf(Head(rows), start, end) \o expand_reservations(Tail(rows), start, end)

\* ------------------------------------------------------------- compute_kpis
\* Optional[int]
None == [given |-> FALSE, v |-> 0]
Some(n) == [given |-> TRUE, v |-> n]

\* df["Alojamiento"].nunique()
NUnique(rows) == Cardinality({rows[i]["Alojamiento"] : i \in 1..Len(rows)})

\* a cutoff that leaves out the reservations created on the cutoff day
CutFilterStrict(rows, cutoff) ==
  SelectSeq(rows, LAMBDA r : TsLe(r["Fecha alta"], cutoff) /\ r["Fecha alta"] # cutoff)

\* a cutoff comparison turned around
CutFilterReversed(rows, cutoff) ==
  SelectSeq(rows, LAMBDA r : TsLe(cutoff, r["Fecha alta"]))

\* line 102: df_all[df_all["Fecha alta"] <= cutoff]
CutFilter(rows, cutoff) == SelectSeq(rows, LAMBDA r : TsLe(r["Fecha alta"], cutoff))

\* lines 103-104: a non-empty filter_props keeps only its properties
PropFilter(rows, filter_props) ==
  IF filter_props # << >>
    THEN SelectSeq(rows, LAMBDA r :
           \E i \in 1..Len(filter_props) : filter_props[i] = r["Alojamiento"])
    ELSE rows

\* the whole price booked on every night
IngresoSinProrrateo(x) == RatOfInt(x.Precio)

\* line 130
IngresoProporcional(x) == Rat(x.Precio, x.TotalNoches)

RECURSIVE SortedNames(_)
\* the group keys in ascending order
SortedNames(S) ==
  IF S = {} THEN << >>
  ELSE LET m == CHOOSE a \in S : \A b \in S \ {a} : StrLt(a, b)
       IN  <<m>> \o SortedNames(S \ {m})

RECURSIVE SumIngresos(_)
SumIngresos(nightly) ==
  IF nightly = << >> THEN Zero
  ELSE RatAdd(IngresoProporcional(Head(nightly)), SumIngresos(Tail(nightly)))

\* lines 132-137: one row per property
GroupRow(nightly, a) ==
  LET mine == SelectSeq(nightly, LAMBDA x : x.Alojamiento = a)
  IN  [Alojamiento |-> a,
       NochesOcupadas |-> Len(mine),
       Ingresos |-> SumIngresos(mine),
       ADR |-> RatDiv(SumIngresos(mine), RatOfInt(Len(mine)))]

ByProp(nightly) ==
  LET names == SortedNames({nightly[i].Alojamiento : i \in 1..Len(nightly)})
  IN  [k \in 1..Len(names) |-> GroupRow(nightly, names[k])]

RECURSIVE SumNoches(_)
SumNoches(bp) == IF bp = << >> THEN 0 ELSE Head(bp).NochesOcupadas + SumNoches(Tail(bp))

RECURSIVE SumByProp(_)
SumByProp(bp) == IF bp = << >> THEN Zero ELSE RatAdd(Head(bp).Ingresos, SumByProp(Tail(bp)))

\* lines 153, 115
PeriodDays(period_start, period_end) == TdDays(period_end - period_start) + 1

\* lines 112-114: the inventory of the branch without nightly rows
EmptyInventory(rows, inventory_override, filter_props) ==
  IF inventory_override.given THEN inventory_override.v
  ELSE IF filter_props # << >> THEN Len(filter_props)
  ELSE NUnique(rows)

\* lines 145-151: the inventory of the branch with nightly rows
Inventario(rows, inventory_override, filter_props) ==
  IF inventory_override.given /\ inventory_override.v > 0 THEN inventory_override.v
  ELSE IF filter_props # << >>
    THEN Cardinality({filter_props[i] : i \in 1..Len(filter_props)})
  ELSE NUnique(rows)

\* line 142
Adr(ingresos, noches_ocupadas) ==
  IF noches_ocupadas > 0 THEN RatDiv(ingresos, RatOfInt(noches_ocupadas)) ELSE Zero

\* occupancy left as a fraction, not a percentage
OcupacionFraccion(noches_ocupadas, noches_disponibles) ==
  IF noches_disponibles > 0
    THEN RatDiv(RatOfInt(noches_ocupadas), RatOfInt(noches_disponibles))
    ELSE Zero

\* line 155
OcupacionPct(noches_ocupadas, noches_disponibles) ==
  IF noches_disponibles > 0
    THEN RatMul(RatDiv(RatOfInt(noches_ocupadas), RatOfInt(noches_disponibles)),
                RatOfInt(100))
    ELSE Zero

\* line 156
RevPar(ingresos, noches_disponibles) ==
  IF noches_disponibles > 0 THEN RatDiv(ingresos, RatOfInt(noches_disponibles)) ELSE Zero

\* lines 110-128
EmptyTotals(rows, period_start, period_end, inventory_override, filter_props) ==
  [noches_ocupadas |-> 0,
   noches_disponibles |->
     EmptyInventory(rows, inventory_override, filter_props)
       * PeriodDays(period_start, period_end),
   ocupacion_pct |-> Zero, ingresos |-> Zero, adr |-> Zero, revpar |-> Zero]

\* lines 139-165
Totals(rows, by_prop, period_start, period_end, inventory_override, filter_props) ==
  LET noches_ocupadas == SumNoches(by_prop)
      ingresos == SumByProp(by_prop)
      noches_disponibles ==
        Inventario(rows, inventory_override, filter_props)
          * PeriodDays(period_start, period_end)
  IN  [noches_ocupadas |-> noches_ocupadas,
       noches_disponibles |-> noches_disponibles,
       ocupacion_pct |-> OcupacionPct(noches_ocupadas, noches_disponibles),
       ingresos |-> ingresos,
       adr |-> Adr(ingresos, noches_ocupadas),
       revpar |-> RevPar(ingresos, noches_disponibles)]

\* line 107: the nightly rows of a call
Nightly(df_all, cutoff, period_start, period_end, filter_props) ==
  expand_reservations(PropFilter(CutFilter(df_all.rows, cutoff), filter_props),
                      period_start, period_end)

\* compute_kpis: [raised, by_prop, total]; a frame without the "Fecha alta"
\* column raises KeyError at line 102
NoTotals ==
  [noches_ocupadas |-> 0, noches_disponibles |-> 0, ocupacion_pct |-> Zero,
   ingresos |-> Zero, adr |-> Zero, revpar |-> Zero]

compute_kpis(df_all, cutoff, period_start, period_end, inventory_override, filter_props) ==
  LET nightly == Nightly(df_all, cutoff, period_start, period_end, filter_props)
  IN  IF "Fecha alta" \notin df_all.cols
        THEN [raised |-> "KeyError", by_prop |-> << >>, total |-> NoTotals]
      ELSE IF nightly = << >>
        THEN [raised |-> "", by_prop |-> << >>,
              total |-> EmptyTotals(df_all.rows, period_start, period_end,
                                    inventory_override, filter_props)]
      ELSE [raised |-> "", by_prop |-> ByProp(nightly),
            total |-> Totals(df_all.rows, ByProp(nightly), period_start, period_end,
                             inventory_override, filter_props)]

\* ------------------------------------------------------------- script state
VARIABLES
  pc,         \* position of the script run, or of a direct call
  files,      \* the uploaded files (st.file_uploader)
  ui,         \* the widget values of this run
  raw,        \* the loaded frame
  by_prop,    \* base KPIs per property
  total,      \* base KPI totals
  df_months,  \* the monthly table
  df_evo,     \* the evolution table
  msgs,       \* what the run reported (st.info / st.error / st.warning)
  args,       \* arguments of a direct call
  ret         \* result of a direct call

vars == <<pc, files, ui, raw, by_prop, total, df_months, df_evo, msgs, args, ret>>

sessionVars == <<files, ui, raw, by_prop, total, df_months, df_evo, msgs>>

\* line 220: sorted(raw["Alojamiento"].dropna().astype(str).unique())
all_props(df) == SortedNames({df.rows[i]["Alojamiento"] : i \in 1..Len(df.rows)})

\* lines 229-230: the non-null check-in and check-out timestamps
StayDates(df) ==
  {t \in {df.rows[i]["Fecha entrada"] : i \in 1..Len(df.rows)}
         \cup {df.rows[i]["Fecha salida"] : i \in 1..Len(df.rows)} : ~IsNaT(t)}

SetMin(S) == CHOOSE x \in S : \A y \in S : x <= y
SetMax(S) == CHOOSE x \in S : \A y \in S : y <= x

\* lines 231-234: the month tokens offered, first to last month with a date
months_options(df) ==
  IF StayDates(df) = {} THEN << >>
  ELSE LET lo == ToPeriodM(SetMin(StayDates(df)))
           hi == ToPeriodM(SetMax(StayDates(df)))
       IN  [k \in 1..(hi - lo + 1) |-> PeriodStr(lo + k - 1)]

\* line 264
inv_override(w) == IF w # 0 /\ w > 0 THEN Some(w) ELSE None

\* one row of a series table, from the totals of one call
SeriesRow(label, t) ==
  [label |-> label,
   noches_ocupadas |-> t.noches_ocupadas,
   noches_disponibles |-> t.noches_disponibles,
   ocupacion_pct |-> t.ocupacion_pct,
   adr |-> t.adr,
   revpar |-> t.revpar,
   ingresos |-> t.ingresos]

\* lines 305-326: the row of month token ym
MonthRow(df, u, ym) ==
  SeriesRow(ym,
            compute_kpis(df, DateTs(u.cutoff),
                         PeriodStartTs(ParsePeriod(ym)), PeriodEndTs(ParsePeriod(ym)),
                         inv_override(u.inventory_override), u.selected).total)

RECURSIVE InsertByLabel(_, _)
InsertByLabel(row, sorted) ==
  IF sorted = << >> THEN <<row>>
  ELSE IF StrLt(row.label, Head(sorted).label) THEN <<row>> \o sorted
  ELSE <<Head(sorted)>> \o InsertByLabel(row, Tail(sorted))

RECURSIVE SortByLabel(_)
\* DataFrame.sort_values("Mes")
SortByLabel(rows) ==
  IF rows = << >> THEN << >>
  ELSE InsertByLabel(rows[Len(rows)], SortByLabel(SubSeq(rows, 1, Len(rows) - 1)))

\* lines 303-327
MonthlyTable(df, u) ==
  SortByLabel([k \in 1..Len(u.selected_months) |-> MonthRow(df, u, u.selected_months[k])])

\* a row computed at the base cutoff instead of the loop's
EvoRowBaseCutoff(df, u, c) ==
  SeriesRow(TdDays(c),
            compute_kpis(df, DateTs(u.cutoff), DateTs(u.evo_target_start),
                         DateTs(u.evo_target_end),
                         inv_override(u.inventory_override), u.selected).total)

\* lines 360-377: the row of cutoff c
EvoRow(df, u, c) ==
  SeriesRow(TdDays(c),
            compute_kpis(df, c, DateTs(u.evo_target_start), DateTs(u.evo_target_end),
                         inv_override(u.inventory_override), u.selected).total)

\* lines 359-378
EvoTable(df, u) ==
  LET cs == DateRange(DateTs(u.evo_cut_start), DateTs(u.evo_cut_end))
  IN  [k \in 1..Len(cs) |-> EvoRow(df, u, cs[k])]

\* ------------------------------------------------------------- the script run
\* a run that goes on to load_excel with no file
GuardWithoutFileCheck ==
  /\ pc = "guard"
  /\ pc' = "load"
  /\ UNCHANGED <<sessionVars, args, ret>>

\* lines 213-215
Guard ==
  /\ pc = "guard"
  /\ IF files = << >>
       THEN /\ msgs' = Append(msgs, "info_upload")
            /\ pc' = "stopped"
       ELSE /\ msgs' = msgs
            /\ pc' = "load"
  /\ UNCHANGED <<files, ui, raw, by_prop, total, df_months, df_evo, args, ret>>

\* line 217
Load ==
  /\ pc = "load"
  /\ IF load_excel(files).halt # ""
       THEN /\ msgs' = Append(msgs, load_excel(files).halt)
            /\ pc' = "stopped"
            /\ raw' = raw
       ELSE /\ msgs' = msgs
            /\ pc' = "base"
            /\ raw' = load_excel(files).df
  /\ UNCHANGED <<files, ui, by_prop, total, df_months, df_evo, args, ret>>

\* lines 219-273; a frame without columns raises KeyError at line 220
Base ==
  /\ pc = "base"
  /\ IF "Alojamiento" \notin raw.cols
       THEN /\ msgs' = Append(msgs, "KeyError")
            /\ pc' = "crashed"
            /\ UNCHANGED <<by_prop, total>>
       ELSE LET r == compute_kpis(raw, DateTs(ui.cutoff), DateTs(ui.period_start),
                                  DateTs(ui.period_end),
                                  inv_override(ui.inventory_override), ui.selected)
            IN  /\ by_prop' = r.by_prop
                /\ total' = r.total
                /\ msgs' = msgs
                /\ pc' = "monthly"
  /\ UNCHANGED <<files, ui, raw, df_months, df_evo, args, ret>>

\* lines 303-344
Monthly ==
  /\ pc = "monthly"
  /\ df_months' = IF ui.selected_months # << >> THEN MonthlyTable(raw, ui) ELSE << >>
  /\ pc' = "evo"
  /\ UNCHANGED <<files, ui, raw, by_prop, total, df_evo, msgs, args, ret>>

\* lines 350-388
Evolution ==
  /\ pc = "evo"
  /\ IF ~ui.run_evo
       THEN UNCHANGED <<df_evo, msgs>>
     ELSE IF DateTs(ui.evo_cut_start) > DateTs(ui.evo_cut_end)
       THEN /\ msgs' = Append(msgs, "error_evo_range")
            /\ df_evo' = df_evo
     ELSE /\ df_evo' = EvoTable(raw, ui)
          /\ msgs' = IF EvoTable(raw, ui) = << >>
                       THEN Append(msgs, "info_no_data") ELSE msgs
  /\ pc' = "detail"
  /\ UNCHANGED <<files, ui, raw, by_prop, total, df_months, args, ret>>

\* lines 392-406
Detail ==
  /\ pc = "detail"
  /\ msgs' = IF by_prop = << >> THEN Append(msgs, "warning_empty") ELSE msgs
  /\ pc' = "done"
  /\ UNCHANGED <<files, ui, raw, by_prop, total, df_months, df_evo, args, ret>>

Next == Guard \/ Load \/ Base \/ Monthly \/ Evolution \/ Detail

\* ------------------------------------------------------------- inputs tried
SeqsUpTo(S, n) == UNION {[1..k -> S] : k \in 0..n}

\* what st.multiselect can return: the options picked, in the order picked
Arrangements(options) ==
  {q \in SeqsUpTo({options[i] : i \in 1..Len(options)}, Len(options)) :
     \A i, j \in 1..Len(q) : i # j => q[i] # q[j]}

\* day number of day d of month m
Day(m, d) == MonthStartDay(m) + d - 1

Row(a, alta, entrada, salida, precio) ==
  [c \in expected |->
     CASE c = "Alojamiento" -> a
       [] c = "Fecha alta" -> alta
       [] c = "Fecha entrada" -> entrada
       [] c = "Fecha salida" -> salida
       [] OTHER -> precio]

NameA == <<"A">>
NameB == <<"B">>

Unreadable == [readable |-> FALSE, cols |-> {}, rows |-> << >>]
Sheet(cols, rows) == [readable |-> TRUE, cols |-> cols, rows |-> rows]

\* the widget defaults (lines 192-198, 207, 224, 237, 242-258)
DefaultUi ==
  [cutoff |-> Day(8, 21), period_start |-> Day(9, 1), period_end |-> Day(9, 30),
   inventory_override |-> 0, selected |-> << >>, selected_months |-> << >>,
   run_evo |-> FALSE,
   evo_cut_start |-> Day(8, 21), evo_cut_end |-> Day(8, 21),
   evo_target_start |-> Day(9, 1), evo_target_end |-> Day(9, 30)]

\* -- a run with the widgets drawn freely over one small sheet
SeriesRows ==
  {Row(TextCell(a), DateCell(alta), DateCell(Day(9, 29)), DateCell(Day(10, 2)),
       NumCell(9)) :
     a \in {NameA, NameB}, alta \in {Day(8, 20), Day(8, 22)}}

SeriesFiles ==
  {<< >>, <<Unreadable>>, <<Sheet(expected \ {"Precio"}, << >>)>>}
    \cup {<<Sheet(expected, rows)>> : rows \in SeqsUpTo(SeriesRows, MaxRows)}

SeriesUi(df) ==
  {[DefaultUi EXCEPT !.cutoff = c, !.inventory_override = w, !.selected = sel,
                     !.selected_months = ms, !.run_evo = e[1],
                     !.evo_cut_start = e[2], !.evo_cut_end = e[3]] :
     c \in {Day(8, 21), Day(8, 22)},
     w \in {0, 3},
     sel \in Arrangements(all_props(df)),
     ms \in Arrangements(months_options(df)),
     e \in {<<FALSE, Day(8, 21), Day(8, 21)>>}
           \cup {<<TRUE, a, b>> : a, b \in {Day(8, 19), Day(8, 22)}}}

\* -- a run with the cells drawn freely and the widgets fixed
LoadRows ==
  {Row(TextCell(a), DateCell(Day(8, 20)), DateCell(Day(9, 29)), DateCell(Day(10, 2)), p) :
     a \in {NameA, <<" ", "B", " ">>},
     p \in {NumCell(9), NumCell(-9), TextCell(<<"x">>), TextCell(<<"1", "2">>)}}

LoadSheets ==
  {Unreadable}
    \cup {Sheet(cols, rows) :
            cols \in {expected, expected \ {"Precio"}},
            rows \in SeqsUpTo(LoadRows, MaxLoadRows)}

LoadFileCounts == {0, 1, 2}

LoadFiles == UNION {[1..k -> LoadSheets] : k \in LoadFileCounts}

LoadUi(df) ==
  [DefaultUi EXCEPT !.selected_months = months_options(df), !.run_evo = TRUE,
                    !.evo_cut_start = Day(8, 19), !.evo_cut_end = Day(8, 21)]

NoCall == [fn |-> ""]

SessionStart(f, u) ==
  /\ pc = "guard"
  /\ files = f
  /\ ui = u
  /\ raw = EmptyFrame
  /\ by_prop = << >>
  /\ total = NoTotals
  /\ df_months = << >>
  /\ df_evo = << >>
  /\ msgs = << >>
  /\ args = NoCall
  /\ ret = NoCall

\* the widgets of a run: those after line 217 exist only when the load passed
Init ==
  \E f \in SeriesFiles :
    \E u \in (IF f # << >> /\ load_excel(f).halt = ""
                THEN SeriesUi(load_excel(f).df) ELSE {DefaultUi}) :
      SessionStart(f, u)

Spec == Init /\ [][Next]_vars

InitLoad ==
  \E f \in LoadFiles :
    SessionStart(f, IF f # << >> /\ load_excel(f).halt = ""
                      THEN LoadUi(load_excel(f).df) ELSE DefaultUi)

SpecLoad == InitLoad /\ [][Next]_vars

\* ------------------------------------------------------------- direct calls
Frame(rows) == [cols |-> expected, rows |-> rows]

CallStart(a) ==
  /\ pc = "call"
  /\ args = a
  /\ ret = NoCall
  /\ files = << >>
  /\ ui = DefaultUi
  /\ raw = EmptyFrame
  /\ by_prop = << >>
  /\ total = NoTotals
  /\ df_months = << >>
  /\ df_evo = << >>
  /\ msgs = << >>

\* -- expand_reservations on any small frame and window
ExpDates == {NaT} \cup {DateTs(d) : d \in 0..MaxDay}

ExpRecs == {Row(NameA, DateTs(0), en, sa, 7) : en \in ExpDates, sa \in ExpDates}

InitExpand ==
  \E rows \in SeqsUpTo(ExpRecs, MaxExpRecs) :
    \E s \in 0..MaxDay, e \in 0..MaxDay :
      CallStart([fn |-> "expand_reservations", rows |-> rows,
                 start |-> DateTs(s), end |-> DateTs(e)])

CallExpand ==
  /\ pc = "call"
  /\ args.fn = "expand_reservations"
  /\ ret' = [fn |-> "expand_reservations",
             rows |-> expand_reservations(args.rows, args.start, args.end)]
  /\ pc' = "returned"
  /\ UNCHANGED <<sessionVars, args>>

SpecExpand == InitExpand /\ [][CallExpand]_vars

\* -- compute_kpis on any small frame and any arguments
KpiRecs ==
  {Row(a, alta, DateTs(st[1]), DateTs(st[2]), 7) :
     a \in {NameA, NameB},
     alta \in {NaT, DateTs(1), DateTs(2)},
     st \in {<<2, 5>>, <<4, 6>>, <<3, 3>>}}

KpiFrames == {EmptyFrame} \cup {Frame(rows) : rows \in SeqsUpTo(KpiRecs, MaxRecs)}

KpiCutoffs == {DateTs(0), DateTs(1)}

\* a window holding every night, one cutting the stays, an inverted one
KpiPeriods == {<<DateTs(2), DateTs(5)>>, <<DateTs(4), DateTs(4)>>, <<DateTs(5), DateTs(3)>>}

KpiCall(df, c, p, inv, fp) ==
  [fn |-> "compute_kpis", df_all |-> df, cutoff |-> c, period_start |-> p[1],
   period_end |-> p[2], inventory_override |-> inv, filter_props |-> fp]

InitKpi ==
  \E df \in KpiFrames, c \in KpiCutoffs, p \in KpiPeriods :
    \E inv \in {None, Some(0), Some(2)} :
      \E fp \in {<< >>, <<NameA>>, <<NameA, NameA>>, <<NameB, NameA>>} :
        CallStart(KpiCall(df, c, p, inv, fp))

\* the arguments the three call sites build (lines 264, 272): the override is
\* None or positive, the filter is None or a multiselect's distinct values
InitKpiApp ==
  \E df \in KpiFrames \ {EmptyFrame}, c \in KpiCutoffs, p \in KpiPeriods :
    \E inv \in {inv_override(w) : w \in {0, 2}} :
      \E fp \in Arrangements(all_props(df)) :
        CallStart(KpiCall(df, c, p, inv, fp))

CallKpis ==
  /\ pc = "call"
  /\ args.fn = "compute_kpis"
  /\ ret' = [fn |-> "compute_kpis",
             out |-> compute_kpis(args.df_all, args.cutoff, args.period_start,
                                  args.period_end, args.inventory_override,
                                  args.filter_props)]
  /\ pc' = "returned"
  /\ UNCHANGED <<sessionVars, args>>

SpecKpi == InitKpi /\ [][CallKpis]_vars

SpecKpiApp == InitKpiApp /\ [][CallKpis]_vars

\* ------------------------------------------------------------- what the claims say
\* the statements below count nights and money on their own, from the records

Present(r) == ~IsNaT(r["Fecha entrada"]) /\ ~IsNaT(r["Fecha salida"])

\* check_out - check_in in days
FullNights(r) == TdDays(r["Fecha salida"] - r["Fecha entrada"])

\* the dates d with check_in <= d < check_out and start <= d <= end
NightsIn(r, start, end) ==
  IF ~Present(r) THEN {}
  ELSE {d \in TdDays(r["Fecha entrada"])..(TdDays(r["Fecha salida"]) - 1) :
          /\ r["Fecha entrada"] <= DateTs(d) /\ DateTs(d) < r["Fecha salida"]
          /\ start <= DateTs(d) /\ DateTs(d) <= end}

\* the money of r inside the window: price x overlapping nights / full nights
MoneyIn(r, start, end) ==
  IF NightsIn(r, start, end) = {} THEN Zero
  ELSE Rat(r["Precio"] * Cardinality(NightsIn(r, start, end)), FullNights(r))

RECURSIVE SumNights(_, _, _)
SumNights(rows, start, end) ==
  IF rows = << >> THEN 0
  ELSE Cardinality(NightsIn(Head(rows), start, end)) + SumNights(Tail(rows), start, end)

RECURSIVE SumMoney(_, _, _)
SumMoney(rows, start, end) ==
  IF rows = << >> THEN Zero
  ELSE RatAdd(MoneyIn(Head(rows), start, end), SumMoney(Tail(rows), start, end))

RECURSIVE SumFullNights(_)
SumFullNights(rows) ==
  IF rows = << >> THEN 0 ELSE FullNights(Head(rows)) + SumFullNights(Tail(rows))

RECURSIVE SumPrecio(_)
SumPrecio(rows) ==
  IF rows = << >> THEN 0 ELSE Head(rows)["Precio"] + SumPrecio(Tail(rows))

Count(xs, P(_)) == Cardinality({k \in 1..Len(xs) : P(xs[k])})

ExpandReturned == pc = "returned" /\ ret.fn = "expand_reservations"

\* C3: expand_reservations emits, for every record with check_in and check_out
\* present, exactly one row per date d with check_in <= d < check_out and
\* period_start <= d <= period_end, and no other rows; a record with
\* check_in = check_out, check_out before check_in, a missing date or no night
\* in the window emits none.
C3_ExpandEmitsExactlyWindowNights ==
  ExpandReturned =>
    /\ \A k \in 1..Len(ret.rows) :
         ret.rows[k].Fecha \in {DateTs(d) : d \in 0..MaxDay}
    /\ \A d \in 0..MaxDay :
         Count(ret.rows, LAMBDA x : x.Fecha = DateTs(d))
           = Count(args.rows, LAMBDA r : d \in NightsIn(r, args.start, args.end))
    /\ (\A i \in 1..Len(args.rows) :
          \/ ~Present(args.rows[i])
          \/ args.rows[i]["Fecha salida"] <= args.rows[i]["Fecha entrada"]
          \/ NightsIn(args.rows[i], args.start, args.end) = {})
         => ret.rows = << >>

\* a stay that starts before the window and ends after it: the rows are the
\* window's days only, the last day of the window among them
C3_Witness ==
  /\ ExpandReturned
  /\ Len(args.rows) >= 1
  /\ Present(args.rows[1])
  /\ args.rows[1]["Fecha entrada"] < args.start
  /\ args.start < args.end
  /\ args.end < args.rows[1]["Fecha salida"] - OneDay
  /\ \E k \in 1..Len(ret.rows) : ret.rows[k].Fecha = args.end

\* C4: every emitted row carries the reservation's full night count
\* (check_out - check_in, before windowing) and is allocated
\* price / full nights; the revenue counted is
\* price x overlapping nights / full nights, so for records wholly inside the
\* window the rows number the full nights and the revenue sums to the price.
C4_RowsCarryFullLengthAndShare ==
  ExpandReturned =>
    /\ \A k \in 1..Len(ret.rows) :
         \E i \in 1..Len(args.rows) :
           LET r == args.rows[i]
               x == ret.rows[k]
           IN  /\ Present(r)
               /\ x.Fecha \in {DateTs(d) : d \in NightsIn(r, args.start, args.end)}
               /\ x.Alojamiento = r["Alojamiento"]
               /\ x.TotalNoches = FullNights(r)
               /\ IngresoProporcional(x) = Rat(r["Precio"], FullNights(r))
    /\ SumIngresos(ret.rows) = SumMoney(args.rows, args.start, args.end)
    /\ (\A i \in 1..Len(args.rows) :
          /\ Present(args.rows[i])
          /\ FullNights(args.rows[i]) >= 1
          /\ args.start <= args.rows[i]["Fecha entrada"]
          /\ args.rows[i]["Fecha salida"] - OneDay <= args.end)
         => /\ Len(ret.rows) = SumFullNights(args.rows)
            /\ SumIngresos(ret.rows) = RatOfInt(SumPrecio(args.rows))

\* a four-night stay of which two nights fall in the window: two rows, each
\* with length 4 and a quarter of the price
C4_Witness ==
  /\ ExpandReturned
  /\ Len(args.rows) = 1
  /\ Present(args.rows[1])
  /\ FullNights(args.rows[1]) = 4
  /\ Len(ret.rows) = 2
  /\ \A k \in 1..2 : ret.rows[k].TotalNoches = 4
  /\ SumIngresos(ret.rows) = Rat(args.rows[1]["Precio"] * 2, 4)

KpiReturned == pc = "returned" /\ ret.fn = "compute_kpis" /\ ret.out.raised = ""

\* effective inventory as the specification words it
ClaimInventory(rows, inventory_override, filter_props) ==
  IF inventory_override.given /\ inventory_override.v > 0 THEN inventory_override.v
  ELSE IF filter_props # << >>
    THEN Cardinality({filter_props[i] : i \in 1..Len(filter_props)})
  ELSE Cardinality({rows[i]["Alojamiento"] : i \in 1..Len(rows)})

\* (period_end - period_start).days + 1
ClaimDays(period_start, period_end) == TdDays(period_end - period_start) + 1

\* created on or before the cutoff and, with a filter, of a filtered property
Counted(r, cutoff, filter_props) ==
  /\ ~IsNaT(r["Fecha alta"])
  /\ r["Fecha alta"] <= cutoff
  /\ \/ filter_props = << >>
     \/ \E i \in 1..Len(filter_props) : filter_props[i] = r["Alojamiento"]

CountedRows(rows, cutoff, filter_props) ==
  SelectSeq(rows, LAMBDA r : Counted(r, cutoff, filter_props))

AllZero(t) ==
  /\ t.noches_ocupadas = 0
  /\ t.ingresos = Zero
  /\ t.adr = Zero
  /\ t.ocupacion_pct = Zero
  /\ t.revpar = Zero

\* C1 as stated: for every call of compute_kpis, with or without nightly rows,
\* available_nights = effective_inventory x ((period_end - period_start).days + 1)
\* with effective_inventory = the override if given and > 0, else the distinct
\* filter values, else the distinct properties of all loaded records.
C1_AvailableNightsIsEffectiveInventoryTimesDays ==
  KpiReturned =>
    ret.out.total.noches_disponibles
      = ClaimInventory(args.df_all.rows, args.inventory_override, args.filter_props)
          * ClaimDays(args.period_start, args.period_end)

\* the totals and the per-property table of a call against the counted records
ContributionsAre(out, rows, cutoff, period_start, period_end, filter_props) ==
  LET counted == CountedRows(rows, cutoff, filter_props)
      of(a) == SelectSeq(counted, LAMBDA r : r["Alojamiento"] = a)
  IN  /\ out.total.noches_ocupadas = SumNights(counted, period_start, period_end)
      /\ out.total.ingresos = SumMoney(counted, period_start, period_end)
      /\ \A k \in 1..Len(out.by_prop) :
           /\ out.by_prop[k].NochesOcupadas
                = SumNights(of(out.by_prop[k].Alojamiento), period_start, period_end)
           /\ out.by_prop[k].Ingresos
                = SumMoney(of(out.by_prop[k].Alojamiento), period_start, period_end)
      /\ \A i \in 1..Len(rows) :
           (SumNights(of(rows[i]["Alojamiento"]), period_start, period_end) > 0)
             = (Count(out.by_prop,
                      LAMBDA b : b.Alojamiento = rows[i]["Alojamiento"]) = 1)

\* C2: a reservation adds occupied nights and revenue to by_property and the
\* totals exactly when its created_at is on or before the cutoff and, with a
\* filter, its property is in the filter; one created later, or with no
\* created_at, adds nothing; with no counted reservation every KPI is 0
\* while available_nights is still inventory x period days.
C2_OnlyReservationsUpToCutoffCount ==
  KpiReturned =>
    /\ ContributionsAre(ret.out, args.df_all.rows, args.cutoff, args.period_start,
                        args.period_end, args.filter_props)
    /\ CountedRows(args.df_all.rows, args.cutoff, << >>) = << >>
         => /\ AllZero(ret.out.total)
            /\ ret.out.by_prop = << >>
            /\ ret.out.total.noches_disponibles
                 = ClaimInventory(args.df_all.rows, args.inventory_override,
                                  args.filter_props)
                     * ClaimDays(args.period_start, args.period_end)

\* two reservations with nights in the period: one created on the cutoff day,
\* which is counted, one created the day after, which is not
C2_Witness ==
  /\ KpiReturned
  /\ Len(args.df_all.rows) = 2
  /\ args.df_all.rows[1]["Fecha alta"] = args.cutoff
  /\ args.df_all.rows[2]["Fecha alta"] = args.cutoff + OneDay
  /\ \A i \in 1..2 :
       NightsIn(args.df_all.rows[i], args.period_start, args.period_end) # {}
  /\ ret.out.total.noches_ocupadas
       = Cardinality(NightsIn(args.df_all.rows[1], args.period_start, args.period_end))

RECURSIVE SumOcc(_)
SumOcc(bp) == IF bp = << >> THEN 0 ELSE Head(bp).NochesOcupadas + SumOcc(Tail(bp))

RECURSIVE SumRev(_)
SumRev(bp) == IF bp = << >> THEN Zero ELSE RatAdd(Head(bp).Ingresos, SumRev(Tail(bp)))

\* q is the quotient n / d of a number n and a positive integer d
IsQuotient(q, n, d) == q.den > 0 /\ q.num * n.den * d = n.num * q.den

\* C5: in every result the totals are the sums of by_property; adr is
\* revenue / occupied_nights when occupied_nights > 0, else 0; occupancy_pct is
\* 100 x occupied_nights / available_nights and revpar revenue /
\* available_nights when available_nights > 0, else both 0; no ratio is a
\* division fault.
C5_TotalsAndGuardedRatios ==
  KpiReturned =>
    LET t == ret.out.total
    IN  /\ t.noches_ocupadas = SumOcc(ret.out.by_prop)
        /\ t.ingresos = SumRev(ret.out.by_prop)
        /\ IF t.noches_ocupadas > 0
             THEN IsQuotient(t.adr, t.ingresos, t.noches_ocupadas)
             ELSE t.adr = Zero
        /\ IF t.noches_disponibles > 0
             THEN /\ IsQuotient(t.ocupacion_pct, RatOfInt(100 * t.noches_ocupadas),
                                t.noches_disponibles)
                  /\ IsQuotient(t.revpar, t.ingresos, t.noches_disponibles)
             ELSE t.ocupacion_pct = Zero /\ t.revpar = Zero
        /\ \A q \in {t.adr, t.ocupacion_pct, t.revpar, t.ingresos} : q # Fault
        /\ \A k \in 1..Len(ret.out.by_prop) : ret.out.by_prop[k].ADR # Fault

\* two properties with occupied nights, and nights available
C5_Witness ==
  /\ KpiReturned
  /\ Len(ret.out.by_prop) = 2
  /\ ret.out.total.noches_ocupadas
       = ret.out.by_prop[1].NochesOcupadas + ret.out.by_prop[2].NochesOcupadas
  /\ ret.out.total.noches_disponibles > ret.out.total.noches_ocupadas
  /\ ret.out.total.adr # Zero

AfterEvolution == pc \in {"detail", "done"}

AfterMonthly == pc \in {"evo", "detail", "done"}

Loaded == pc \in {"base", "monthly", "evo", "detail", "done"}

Reported(m) == \E k \in 1..Len(msgs) : msgs[k] = m

\* the override of the run as the widget gives it: 0 stands for none
UiInventory(rows) ==
  ClaimInventory(rows,
                 IF ui.inventory_override > 0 THEN Some(ui.inventory_override) ELSE None,
                 ui.selected)

\* C6: with cut_start <= cut_end the evolution has exactly one totals row per
\* calendar day of [cut_start, cut_end], in ascending order, and the row of day
\* c is the totals of a single query with cutoff c over the fixed target period
\* (filter and inventory fixed, the cutoff applied to the full record set);
\* with cut_start > cut_end it reports an error, produces no row, and the run
\* goes on.
C6_EvolutionOneRowPerCutoffDay ==
  /\ (pc = "stopped" => ~Reported("error_evo_range"))
  /\ (AfterEvolution /\ ui.run_evo) =>
       IF ui.evo_cut_start <= ui.evo_cut_end
         THEN /\ Len(df_evo) = ui.evo_cut_end - ui.evo_cut_start + 1
              /\ ~Reported("error_evo_range")
              /\ \A k \in 1..Len(df_evo) :
                   LET c == ui.evo_cut_start + k - 1
                       counted == CountedRows(raw.rows, DateTs(c), ui.selected)
                   IN  /\ df_evo[k].label = c
                       /\ df_evo[k]
                            = SeriesRow(c, compute_kpis(raw, DateTs(c),
                                                        DateTs(ui.evo_target_start),
                                                        DateTs(ui.evo_target_end),
                                                        inv_override(ui.inventory_override),
                                                        ui.selected).total)
                       /\ df_evo[k].noches_ocupadas
                            = SumNights(counted, DateTs(ui.evo_target_start),
                                        DateTs(ui.evo_target_end))
                       /\ df_evo[k].ingresos
                            = SumMoney(counted, DateTs(ui.evo_target_start),
                                       DateTs(ui.evo_target_end))
         ELSE /\ df_evo = << >>
              /\ Reported("error_evo_range")

\* a four-day cutoff range whose rows differ: nothing on the first day,
\* occupied nights on the last
C6_Witness ==
  /\ pc = "done"
  /\ ui.run_evo
  /\ Len(df_evo) = 4
  /\ df_evo[1].noches_ocupadas = 0
  /\ df_evo[4].noches_ocupadas > df_evo[2].noches_ocupadas
  /\ df_evo[2].noches_ocupadas > 0
  /\ ui.cutoff # ui.evo_cut_end

\* C7: the monthly table has exactly one totals row per selected month token,
\* computed over the first .. last calendar day of that month (available
\* nights = effective inventory x days of the month; a night on the last day
\* of a month counts in that month only), cutoff, filter and inventory fixed,
\* the rows in ascending month order whatever the order of selection.
C7_MonthlyOneRowPerMonthSorted ==
  AfterMonthly =>
    /\ Len(df_months) = Len(ui.selected_months)
    /\ \A j \in 1..Len(ui.selected_months) :
         Count(df_months, LAMBDA x : x.label = ui.selected_months[j]) = 1
    /\ \A k \in 1..(Len(df_months) - 1) :
         ParsePeriod(df_months[k].label) < ParsePeriod(df_months[k + 1].label)
    /\ \A k \in 1..Len(df_months) :
         LET m == ParsePeriod(df_months[k].label)
             first == DateTs(MonthStartDay(m))
             last == DateTs(MonthStartDay(m) + MonthLen[m] - 1)
             counted == CountedRows(raw.rows, DateTs(ui.cutoff), ui.selected)
         IN  /\ df_months[k].noches_disponibles = UiInventory(raw.rows) * MonthLen[m]
             /\ df_months[k].noches_ocupadas = SumNights(counted, first, last)
             /\ df_months[k].ingresos = SumMoney(counted, first, last)
             /\ df_months[k]
                  = SeriesRow(df_months[k].label,
                              compute_kpis(raw, DateTs(ui.cutoff), first, last,
                                           inv_override(ui.inventory_override),
                                           ui.selected).total)

\* October picked before September, a stay over the month end: September
\* comes first, with the nights of the 29th and 30th, October has the 1st
C7_Witness ==
  /\ pc = "done"
  /\ ui.selected_months = <<PeriodStr(10), PeriodStr(9)>>
  /\ Len(df_months) = 2
  /\ df_months[1].label = PeriodStr(9)
  /\ df_months[1].noches_ocupadas = 2
  /\ df_months[2].noches_ocupadas = 1
  /\ df_months[1].noches_disponibles = 30
  /\ df_months[2].noches_disponibles = 31

\* the price cells of the uploaded sheets in the order pd.concat keeps, a sheet
\* without the column giving blanks
RECURSIVE PriceCells(_)
PriceCells(fs) ==
  IF fs = << >> THEN << >>
  ELSE [i \in 1..Len(Head(fs).rows) |->
          IF "Precio" \in Head(fs).cols THEN Head(fs).rows[i]["Precio"] ELSE Blank]
       \o PriceCells(Tail(fs))

\* the number a price cell stands for, 0 when it stands for none
ClaimPrice(c) ==
  CASE c.kind = "num" -> c.n
    [] c = TextCell(<<"1", "2">>) -> 12
    [] OTHER -> 0

Unparseable(c) == c.kind = "blank" \/ c = TextCell(<<"x">>)

\* C8 as stated: after load_excel every price is a non-negative number, an
\* unparseable or missing one is 0.0 with its row kept, and no negative price
\* reaches the aggregator.
C8_PricesNonNegative ==
  Loaded =>
    /\ Len(raw.rows) = Len(PriceCells(files))
    /\ \A i \in 1..Len(raw.rows) :
         /\ raw.rows[i]["Precio"] >= 0
         /\ Unparseable(PriceCells(files)[i]) => raw.rows[i]["Precio"] = 0

\* C8 amended: after load_excel every price is a number, never missing: an
\* unparseable or missing one is 0.0 with its row kept, and a numeric one is
\* kept as it is, a negative one too.
C8_PricesNumericAsGiven ==
  Loaded =>
    /\ Len(raw.rows) = Len(PriceCells(files))
    /\ \A i \in 1..Len(raw.rows) :
         /\ raw.rows[i]["Precio"] \in Int
         /\ raw.rows[i]["Precio"] = ClaimPrice(PriceCells(files)[i])
         /\ Unparseable(PriceCells(files)[i]) => raw.rows[i]["Precio"] = 0

\* two sheets: one with a negative price, one without the price column; both
\* rows are kept, and the negative revenue reaches the totals
C8_Witness ==
  /\ pc = "done"
  /\ Len(raw.rows) = 2
  /\ PriceCells(files)[1] = NumCell(-9)
  /\ raw.rows[1]["Precio"] = -9
  /\ PriceCells(files)[2] = Blank
  /\ raw.rows[2]["Precio"] = 0
  /\ total.ingresos.num < 0

\* C9 as stated: with no input table the load gives an empty record set
\* without an error and the KPI query that follows completes with all KPIs 0;
\* only a missing column or an unreadable file stops the run.
C9_ZeroFilesGiveZeroKpis ==
  /\ pc = "stopped" => (Reported("read_error") \/ Reported("missing_columns"))
  /\ files = << >> => pc # "stopped"
  /\ (files = << >> /\ pc = "done") => AllZero(total)

\* C9 amended: with no input table load_excel itself gives an empty record set
\* without an error, but the run reports that a file is needed and stops at
\* the file check, before loading and before any KPI; a run stops before any
\* computation in exactly three cases: no file, an unreadable file, a missing
\* required column.
C9_ZeroFilesStopAtFileCheck ==
  /\ pc # "crashed"
  /\ files = << >> =>
       /\ load_excel(files) = [halt |-> "", df |-> EmptyFrame]
       /\ pc \in {"guard", "stopped"}
  /\ pc = "stopped" =>
       /\ raw = EmptyFrame /\ by_prop = << >> /\ total = NoTotals
       /\ df_months = << >> /\ df_evo = << >>
       /\ \/ msgs = <<"info_upload">> /\ files = << >>
          \/ /\ msgs = <<"read_error">>
             /\ \E i \in 1..Len(files) : ~files[i].readable
          \/ /\ msgs = <<"missing_columns">>
             /\ \A i \in 1..Len(files) : files[i].readable
             /\ \E c \in expected : \A i \in 1..Len(files) : c \notin files[i].cols
  /\ (pc \notin {"guard", "load", "stopped"}) =>
       /\ files # << >>
       /\ \A i \in 1..Len(files) : files[i].readable
       /\ \A c \in expected : \E i \in 1..Len(files) : c \in files[i].cols

\* no file uploaded: the run has stopped at the file check with its message
C9_Witness ==
  /\ files = << >>
  /\ pc = "stopped"
  /\ msgs = <<"info_upload">>
  /\ total = NoTotals

\* C10: along an evolution series occupied nights and occupancy_pct never
\* decrease from one row to the next, and available_nights is the same in
\* every row.
C10_EvolutionNonDecreasing ==
  AfterEvolution =>
    \A k \in 1..(Len(df_evo) - 1) :
      /\ df_evo[k].noches_ocupadas <= df_evo[k + 1].noches_ocupadas
      /\ RatLe(df_evo[k].ocupacion_pct, df_evo[k + 1].ocupacion_pct)
      /\ df_evo[k].noches_disponibles = df_evo[k + 1].noches_disponibles

\* a series that grows twice: no night, then some, then more
C10_Witness ==
  /\ AfterEvolution
  /\ Len(df_evo) = 4
  /\ df_evo[1].noches_ocupadas = 0
  /\ df_evo[2].noches_ocupadas > 0
  /\ df_evo[4].noches_ocupadas > df_evo[3].noches_ocupadas
  /\ df_evo[4].ocupacion_pct # df_evo[2].ocupacion_pct
  /\ df_evo[1].noches_disponibles > 0

====
